---- MODULE Spec2Model ----
(***************************************************************************)
(* The useFlyToTarget hook (src/Sandbox-demo.tsx, lines 396-686, and the   *)
(* center-to-center variant in src/unnamed/part_000): flyToTarget builds a *)
(* gsap timeline and pushes it on activeAnimationsRef; killAll and kill    *)
(* cancel timelines; the gsap ticker plays the timelines.                  *)
(*                                                                         *)
(* Units: times are in twentieths of a second (0.45 s = 9), scale values   *)
(* in tenths (1.2 = 12), shadow blurs in twentieths of a pixel (4.8 px =   *)
(* 96), coordinates in pixels.  Arithmetic is exact: the layouts keep      *)
(* every coordinate a multiple of 4, so that the halves the code takes are *)
(* whole numbers.  A timeline handle is its index in `timelines`; 0 is the *)
(* null timeline.                                                          *)
(***************************************************************************)
EXTENDS Integers, Sequences, FiniteSets, TLC

VARIABLES
    activeAnimationsRef,  \* per hook instance: activeAnimationsRef.current
    timelines,            \* every gsap timeline created so far, by handle
    lastCall              \* the operation that ran last: arguments, result, effects

vars == <<activeAnimationsRef, timelines, lastCall>>

\* ---------------------------------------------------------------- bounds

MaxTimelines == 2   \* timelines created in one run

\* ---------------------------------------------------------------- values

Instances == {"A", "B"}          \* two mounted useFlyToTarget() hooks
NullEl == "null"                 \* a ref whose .current is null
Sources == {"dart"}
Targets == {"board"}
NullTl == 0

Max(a, b) == IF a >= b THEN a ELSE b
Min(a, b) == IF a <= b THEN a ELSE b

DEFAULT_CONFIG ==
    [ motionDuration |-> 9,
      motionEase |-> "power3.out",
      swoopAmount |-> -100,
      targetPosition |-> "center",
      targetPositionOffset |-> [x |-> 0, y |-> 0],
      scale |-> TRUE,
      grabScale |-> 12,
      scaleStartDelay |-> 0,
      scaleUpDuration |-> 4,
      scaleUpEase |-> "power3.in",
      scalePeak |-> 25,
      scalePause |-> 3,
      scaleDownDuration |-> 2,
      scaleDownEase |-> "none",
      scaleTarget |-> 10,
      enableShadow |-> TRUE,
      baseShadowBlur |-> 4,
      onComplete |-> "default",
      onStart |-> "default" ]

\* { ...DEFAULT_CONFIG, ...userConfig }: every own property of userConfig wins,
\* a property whose value is undefined included.
MergeConfig(userConfig) ==
    [f \in DOMAIN DEFAULT_CONFIG |->
        IF f \in DOMAIN userConfig THEN userConfig[f] ELSE DEFAULT_CONFIG[f]]

\* ---------------------------------------------------------------- layout

\* What the DOM and gsap report for an element when flyToTarget reads them.
\* "dart" is the dart in the hand, "dartOnBoard" the same dart after a flight
\* to the board's center (its center is on the board's center), "board"
\* and "rack" are targets to the right and to the upper left of the hand.
getBoundingClientRect(element) ==
    CASE element = "dart"        -> [left |-> 180, top |-> 180, width |-> 40, height |-> 40]
      [] element = "dartOnBoard" -> [left |-> 380, top |-> 180, width |-> 40, height |-> 40]
      [] element = "board"       -> [left |-> 320, top |-> 120, width |-> 160, height |-> 160]
      [] element = "rack"        -> [left |-> 60, top |-> 20, width |-> 40, height |-> 40]

\* gsap.getProperty(element, 'x' | 'y'): the element's current translation
getProperty(element, property) ==
    CASE element = "dart"        -> 100
      [] element = "dartOnBoard" -> IF property = "x" THEN 300 ELSE 100
      [] OTHER                   -> 0

Half(n) == n \div 2
Abs(n) == IF n < 0 THEN -n ELSE n

getTargetPointNoOffset(rect, position, config) ==
    LET right == position \in {"topRight", "rightCenter", "bottomRight"}
        left == position \in {"topLeft", "leftCenter", "bottomLeft"}
        top == position \in {"topLeft", "topCenter", "topRight"}
        bottom == position \in {"bottomLeft", "bottomCenter", "bottomRight"}
    IN  [x |-> IF left THEN rect.left
               ELSE IF right THEN rect.left + rect.width
               ELSE rect.left + rect.width \div 2,
         y |-> IF top THEN rect.top
               ELSE IF bottom THEN rect.top + rect.height
               ELSE rect.top + rect.height \div 2]

\* getTargetPoint(rect, position): the anchor on the rectangle, the center for
\* 'center' and for any other tag, moved by config.targetPositionOffset
getTargetPoint(rect, position, config) ==
    LET xLeft == rect.left
        xCenter == rect.left + Half(rect.width)
        xRight == rect.left + rect.width
        yTop == rect.top
        yCenter == rect.top + Half(rect.height)
        yBottom == rect.top + rect.height
        pos == CASE position = "topLeft"      -> [x |-> xLeft, y |-> yTop]
                 [] position = "topCenter"    -> [x |-> xCenter, y |-> yTop]
                 [] position = "topRight"     -> [x |-> xRight, y |-> yTop]
                 [] position = "leftCenter"   -> [x |-> xLeft, y |-> yCenter]
                 [] position = "rightCenter"  -> [x |-> xRight, y |-> yCenter]
                 [] position = "bottomLeft"   -> [x |-> xLeft, y |-> yBottom]
                 [] position = "bottomCenter" -> [x |-> xCenter, y |-> yBottom]
                 [] position = "bottomRight"  -> [x |-> xRight, y |-> yBottom]
                 [] OTHER                     -> [x |-> xCenter, y |-> yCenter]
    IN  [x |-> pos.x + config.targetPositionOffset.x,
         y |-> pos.y + config.targetPositionOffset.y]

\* (currentX, currentY) and (targetX, targetY): where the motion starts and
\* where it ends, in the source's translation space
StartPoint(sourceElement) ==
    [x |-> getProperty(sourceElement, "x"), y |-> getProperty(sourceElement, "y")]

EndPointIgnoringCurrent(sourceElement, targetElement, config) ==
    LET sourceRect == getBoundingClientRect(sourceElement)
        targetRect == getBoundingClientRect(targetElement)
        targetPoint == getTargetPoint(targetRect, config.targetPosition, config)
    IN  [x |-> targetPoint.x - (sourceRect.left + sourceRect.width \div 2),
         y |-> targetPoint.y - (sourceRect.top + sourceRect.height \div 2)]

EndPoint(sourceElement, targetElement, config) ==
    LET sourceRect == getBoundingClientRect(sourceElement)
        targetRect == getBoundingClientRect(targetElement)
        targetPoint == getTargetPoint(targetRect, config.targetPosition, config)
        sourceCenter == [x |-> sourceRect.left + Half(sourceRect.width),
                         y |-> sourceRect.top + Half(sourceRect.height)]
        current == StartPoint(sourceElement)
    IN  [x |-> current.x + (targetPoint.x - sourceCenter.x),
         y |-> current.y + (targetPoint.y - sourceCenter.y)]

EndPointLeftToLeft(sourceElement, targetElement) ==
    [x |-> getProperty(sourceElement, "x")
           + (getBoundingClientRect(targetElement).left
              - getBoundingClientRect(sourceElement).left),
     y |-> getProperty(sourceElement, "y")
           + (getBoundingClientRect(targetElement).top
              - getBoundingClientRect(sourceElement).top)]

\* The center-to-center variant of the hook: targetX = currentX +
\* (targetRect.left + targetRect.width / 2 - sourceRect.left -
\* sourceRect.width / 2), and the same for y
EndPointCenterToCenter(sourceElement, targetElement) ==
    LET sourceRect == getBoundingClientRect(sourceElement)
        targetRect == getBoundingClientRect(targetElement)
    IN  [x |-> getProperty(sourceElement, "x")
               + (targetRect.left + Half(targetRect.width)
                  - sourceRect.left - Half(sourceRect.width)),
         y |-> getProperty(sourceElement, "y")
               + (targetRect.top + Half(targetRect.height)
                  - sourceRect.top - Half(sourceRect.height))]

\* Math.sqrt(a * a + b * b) where it is a whole number: it lies between the
\* larger of |a|, |b| and their sum
IsSquare(a, b) ==
    \E r \in Max(Abs(a), Abs(b))..(Abs(a) + Abs(b)) : r * r = a * a + b * b
Sqrt(a, b) ==
    CHOOSE r \in Max(Abs(a), Abs(b))..(Abs(a) + Abs(b)) : r * r = a * a + b * b

PerpOpposite(dx, dy) == [x |-> dy, y |-> -dx]
PerpAlong(dx, dy) == [x |-> dx, y |-> dy]

\* perpX = -dy, perpY = dx
Perp(dx, dy) == [x |-> -dy, y |-> dx]

\* The control point of the curve: the midpoint moved by swoopAmount along
\* the normalized perpendicular (-dy, dx).  With start = end the length is 0
\* and both quotients are 0 / 0, NaN, so both coordinates are NaN.  Where the
\* length is not a whole number the coordinates are left as
\* mid + num / sqrt(length2) (exact = FALSE, x and y hold the midpoint).
ControlPoint(start, end, swoopAmount) ==
    LET midX == Half(start.x + end.x)
        midY == Half(start.y + end.y)
        dx == end.x - start.x
        dy == end.y - start.y
        perpX == Perp(dx, dy).x
        perpY == Perp(dx, dy).y
        length2 == perpX * perpX + perpY * perpY
        whole == /\ IsSquare(perpX, perpY)
                 /\ (perpX * swoopAmount) % Sqrt(perpX, perpY) = 0
                 /\ (perpY * swoopAmount) % Sqrt(perpX, perpY) = 0
    IN  IF length2 = 0
        THEN [nan |-> TRUE, exact |-> FALSE, x |-> 0, y |-> 0, length2 |-> 0]
        ELSE IF whole
        THEN [nan |-> FALSE, exact |-> TRUE,
              x |-> midX + (perpX * swoopAmount) \div Sqrt(perpX, perpY),
              y |-> midY + (perpY * swoopAmount) \div Sqrt(perpX, perpY),
              length2 |-> length2]
        ELSE [nan |-> FALSE, exact |-> FALSE, x |-> midX, y |-> midY,
              length2 |-> length2]

\* ---------------------------------------------------------------- gsap timeline

\* endTime() of a child of a timeline
EndTime(child) == child.start + child.duration

ParsePositionFromTimelineEnd(children, position) ==
    IF position.rel = ">"
    THEN (IF children = <<>> THEN 0
          ELSE LET F[k \in 0..Len(children)] ==
                       IF k = 0 THEN 0
                       ELSE IF children[k].start + children[k].duration >= F[k - 1]
                            THEN children[k].start + children[k].duration
                            ELSE F[k - 1]
               IN  F[Len(children)]) + position.at
    ELSE position.at

\* The position parameter of tl.to / tl.fromTo: a number is an absolute time,
\* ">n" is n past the end of the most recently added child.
ParsePosition(children, position) ==
    IF position.rel = ">"
    THEN (IF children = <<>> THEN 0 ELSE EndTime(children[Len(children)])) + position.at
    ELSE position.at

\* tl.to(target, vars, position): the child starts at position + vars.delay
AddChild(children, tweenVars, position) ==
    Append(children,
           [prop |-> tweenVars.prop,
            start |-> ParsePosition(children, position) + tweenVars.delay,
            duration |-> tweenVars.duration,
            vars |-> tweenVars])

RECURSIVE MaxEnd(_)
MaxEnd(children) ==
    IF children = <<>> THEN 0
    ELSE Max(EndTime(Head(children)), MaxEnd(Tail(children)))

\* duration() of a timeline: the end of its last-ending child
TimelineDuration(children) == MaxEnd(children)

\* tl.kill(): a running timeline stops for good; a finished or killed one
\* stays as it is.
KillTimeline(tls, h) ==
    [tls EXCEPT ![h].status = IF @ = "running" THEN "killed" ELSE @]

RECURSIVE KillEach(_, _)
KillEach(tls, handles) ==
    IF handles = <<>> THEN tls
    ELSE KillEach(KillTimeline(tls, Head(handles)), Tail(handles))

KillEvents(handles) == [k \in 1..Len(handles) |-> [ev |-> "kill", tl |-> handles[k]]]

Ev(name) == [ev |-> name, tl |-> NullTl]

\* ---------------------------------------------------------------- calls

\* What lastCall keeps of a call: the operation and its arguments (source,
\* target, userConfig and the merged config.onStart of flyToTarget; the timeline passed to
\* kill, with its status and its presence in the caller's array before the
\* call), the result, whether it threw, and the effects in order.
NoCall ==
    [op |-> "mount", inst |-> "none", source |-> "none", target |-> "none",
     userConfig |-> <<>>, onStart |-> "none", tl |-> NullTl, before |-> "none", present |-> FALSE,
     ret |-> NullTl, threw |-> FALSE, trace |-> <<>>]

Call(op, i, trace) == [NoCall EXCEPT !.op = op, !.inst = i, !.trace = trace]

FlyCall(i, sourceElement, targetElement, userConfig, onStart, ret, threw, trace) ==
    [Call("flyToTarget", i, trace) EXCEPT !.source = sourceElement,
                                          !.target = targetElement,
                                          !.userConfig = userConfig,
                                          !.onStart = onStart,
                                          !.ret = ret,
                                          !.threw = threw]

\* ---------------------------------------------------------------- killAll, kill

KillAllBodyRunningOnly(s) ==
    LET live == SelectSeq(s.reg, LAMBDA h : s.tls[h].status = "running")
    IN  [s EXCEPT !.tls = KillEach(s.tls, live),
                  !.reg = <<>>,
                  !.trace = s.trace \o KillEvents(live)]

KillAllBodyEveryTimeline(s) ==
    LET all == [h \in 1..Len(s.tls) |-> h]
    IN  [s EXCEPT !.tls = KillEach(s.tls, all),
                  !.reg = <<>>,
                  !.trace = s.trace \o KillEvents(all)]

KillAllBodyKeepsArray(s) ==
    [s EXCEPT !.tls = KillEach(s.tls, s.reg),
              !.trace = s.trace \o KillEvents(s.reg)]

\* activeAnimationsRef.current.forEach(tl => tl.kill()); then the array is
\* replaced by an empty one.
KillAllBody(s) ==
    [s EXCEPT !.tls = KillEach(s.tls, s.reg),
              !.reg = <<>>,
              !.trace = s.trace \o KillEvents(s.reg)]

killAll(i) ==
    LET s0 == [reg |-> activeAnimationsRef[i], tls |-> timelines,
               trace |-> <<>>, ret |-> NullTl]
        s1 == KillAllBody(s0)
    IN  /\ timelines' = s1.tls
        /\ activeAnimationsRef' = [activeAnimationsRef EXCEPT ![i] = s1.reg]
        /\ lastCall' = Call("killAll", i, s1.trace)

\* array.filter(tl => tl !== timeline)
RECURSIVE FilterOut(_, _)
FilterOut(handles, timeline) ==
    IF handles = <<>> THEN <<>>
    ELSE IF Head(handles) # timeline
         THEN <<Head(handles)>> \o FilterOut(Tail(handles), timeline)
         ELSE FilterOut(Tail(handles), timeline)

KillBodyIfPresent(s, timeline) ==
    IF timeline # NullTl /\ \E k \in 1..Len(s.reg) : s.reg[k] = timeline
    THEN [s EXCEPT !.tls = KillTimeline(s.tls, timeline),
                   !.reg = FilterOut(s.reg, timeline),
                   !.trace = Append(s.trace, [ev |-> "kill", tl |-> timeline])]
    ELSE s

\* if (timeline) { timeline.kill(); filter it out of this hook's array }
KillBody(s, timeline) ==
    IF timeline # NullTl
    THEN [s EXCEPT !.tls = KillTimeline(s.tls, timeline),
                   !.reg = FilterOut(s.reg, timeline),
                   !.trace = Append(s.trace, [ev |-> "kill", tl |-> timeline])]
    ELSE s

kill(i, timeline) ==
    LET s0 == [reg |-> activeAnimationsRef[i], tls |-> timelines,
               trace |-> <<>>, ret |-> NullTl]
        s1 == KillBody(s0, timeline)
    IN  /\ timelines' = s1.tls
        /\ activeAnimationsRef' = [activeAnimationsRef EXCEPT ![i] = s1.reg]
        /\ lastCall' =
             [Call("kill", i, s1.trace) EXCEPT
                 !.tl = timeline,
                 !.before = IF timeline = NullTl THEN "none"
                            ELSE timelines[timeline].status,
                 !.present = \E k \in 1..Len(activeAnimationsRef[i]) :
                                 activeAnimationsRef[i][k] = timeline]

\* ---------------------------------------------------------------- flyToTarget

MotionChildrenDetached(sourceElement, targetElement, config) == <<>>

MotionConfigAlwaysPath(sourceElement, targetElement, config) ==
    LET start == StartPoint(sourceElement)
        end == EndPoint(sourceElement, targetElement, config)
    IN  [prop |-> "motion", delay |-> 0,
         duration |-> config.motionDuration, ease |-> config.motionEase,
         motionPath |-> [path |-> <<start,
                                    ControlPoint(start, end, config.swoopAmount),
                                    end>>,
                         curviness |-> 2, resolution |-> 6]]

\* motionConfig: duration and ease, and either the end point as x, y (no
\* swoop) or the motionPath through start, control point and end
MotionConfig(sourceElement, targetElement, config) ==
    LET start == StartPoint(sourceElement)
        end == EndPoint(sourceElement, targetElement, config)
    IN  IF config.swoopAmount # 0
        THEN [prop |-> "motion", delay |-> 0,
              duration |-> config.motionDuration, ease |-> config.motionEase,
              motionPath |-> [path |-> <<start,
                                         ControlPoint(start, end, config.swoopAmount),
                                         end>>,
                              curviness |-> 2, resolution |-> 6]]
        ELSE [prop |-> "motion", delay |-> 0,
              duration |-> config.motionDuration, ease |-> config.motionEase,
              x |-> end.x, y |-> end.y]

\* The children flyToTarget adds to the timeline, in the order it adds them:
\* the motion tween at 0; with config.scale the scale-up fromTo at 0 with
\* delay scaleStartDelay, then the scale-down tween with delay scalePause at
\* position ">" + (scaleStartDelay + scaleUpDuration).
MotionChildren(sourceElement, targetElement, config) ==
    AddChild(<<>>, MotionConfig(sourceElement, targetElement, config),
             [rel |-> "abs", at |-> 0])

\* `0px ${y}px ${blur}px rgba(0,0,0,${alpha})`: blur in twentieths of a pixel,
\* alpha in tenths
BoxShadow(y, blur, alpha) == [x |-> 0, y |-> y, blur |-> blur, alpha |-> alpha]

\* startBlur = baseShadowBlur * grabScale and maxBlur = baseShadowBlur *
\* scalePeak * 0.5, in twentieths of a pixel (the scales are in tenths)
StartBlur(config) == config.baseShadowBlur * config.grabScale * 2
MaxBlurOfTarget(config) == config.baseShadowBlur * config.scaleTarget
MaxBlur(config) == config.baseShadowBlur * config.scalePeak

WithBoxShadowAlways(tweenVars, config, shadow) ==
    [f \in DOMAIN tweenVars \cup {"boxShadow"} |->
        IF f = "boxShadow" THEN shadow ELSE tweenVars[f]]

WithBoxShadow(tweenVars, config, shadow) ==
    IF config.enableShadow
    THEN [f \in DOMAIN tweenVars \cup {"boxShadow"} |->
             IF f = "boxShadow" THEN shadow ELSE tweenVars[f]]
    ELSE tweenVars

ScaleConfigNoDelay(config) ==
    WithBoxShadow([prop |-> "scaleUp", from |-> [scale |-> config.grabScale],
                   scale |-> config.scalePeak, delay |-> 0,
                   duration |-> config.scaleUpDuration, ease |-> config.scaleUpEase],
                  config, BoxShadow(2, MaxBlur(config), 6))

ScaleConfig(config) ==
    WithBoxShadow([prop |-> "scaleUp", from |-> [scale |-> config.grabScale],
                   scale |-> config.scalePeak, delay |-> config.scaleStartDelay,
                   duration |-> config.scaleUpDuration, ease |-> config.scaleUpEase],
                  config, BoxShadow(2, MaxBlur(config), 6))

ScaleDownConfig(config) ==
    WithBoxShadow([prop |-> "scaleDown", delay |-> config.scalePause,
                   scale |-> config.scaleTarget,
                   duration |-> config.scaleDownDuration,
                   ease |-> config.scaleDownEase],
                  config, BoxShadow(0, 0, 0))

ScaleChildrenDownAtZero(children, config) ==
    LET up == AddChild(children, ScaleConfig(config), [rel |-> "abs", at |-> 0])
    IN  AddChild(up, ScaleDownConfig(config), [rel |-> "abs", at |-> 0])

ScaleChildren(children, config) ==
    LET up == AddChild(children, ScaleConfig(config), [rel |-> "abs", at |-> 0])
    IN  AddChild(up, ScaleDownConfig(config),
                 [rel |-> ">", at |-> config.scaleStartDelay + config.scaleUpDuration])

BuildChildren(sourceElement, targetElement, config) ==
    IF config.scale
    THEN ScaleChildren(MotionChildren(sourceElement, targetElement, config), config)
    ELSE MotionChildren(sourceElement, targetElement, config)

ImmediateSetsShadowOnly(config) ==
    IF config.scale /\ config.enableShadow
    THEN <<[boxShadow |-> BoxShadow(2, StartBlur(config), 3)]>>
    ELSE <<>>

\* What gsap.set puts on the source element at once: the starting shadow
\* with scale and shadow enabled, the grab scale with scale disabled
ImmediateSets(config) ==
    IF config.scale
    THEN (IF config.enableShadow
          THEN <<[boxShadow |-> BoxShadow(2, StartBlur(config), 3)]>>
          ELSE <<>>)
    ELSE <<[scale |-> config.grabScale]>>

\* The calls flyToTarget makes on gsap while it builds timeline h
BuildEvents(config, h) ==
    <<[ev |-> "timeline", tl |-> h], [ev |-> "to:motion", tl |-> h]>>
    \o (IF config.scale
        THEN (IF config.enableShadow THEN <<Ev("set:boxShadow")>> ELSE <<>>)
             \o <<[ev |-> "fromTo:scale", tl |-> h], [ev |-> "to:scale", tl |-> h]>>
        ELSE <<Ev("set:scale")>>)

\* A flyToTarget call in progress is s = [reg, tls, trace, ret]: the hook's
\* activeAnimationsRef.current, the timelines, the effects so far, the result.

\* config.onStart(): the default and an ordinary callback touch nothing of the
\* hook; "fnKillAll" is a callback that calls this hook's killAll(), "fnKill"
\* one that calls this hook's kill() with the timeline of the hook's previous
\* flight that is still in the array (null if there is none).
StepOnStart(s, config) ==
    IF config.onStart = "fnKillAll"
    THEN KillAllBody([s EXCEPT !.trace = Append(s.trace, Ev("onStart"))])
    ELSE IF config.onStart = "fnKill"
    THEN KillBody([s EXCEPT !.trace = Append(s.trace, Ev("onStart"))],
                  IF s.reg = <<>> THEN NullTl ELSE s.reg[Len(s.reg)])
    ELSE [s EXCEPT !.trace = Append(s.trace, Ev("onStart"))]

\* gsap.timeline({ onComplete }) and the tweens added to it
StepBuild(s, i, sourceElement, targetElement, config) ==
    LET h == Len(s.tls) + 1
    IN  [s EXCEPT !.tls = Append(s.tls,
                                 [status |-> "running",
                                  time |-> 0,
                                  config |-> config,
                                  children |-> BuildChildren(sourceElement,
                                                             targetElement, config),
                                  set |-> ImmediateSets(config),
                                  targets |-> sourceElement,
                                  flownTo |-> targetElement,
                                  owner |-> i,
                                  onComplete |-> config.onComplete,
                                  completes |-> 0]),
                  !.trace = s.trace \o BuildEvents(config, h),
                  !.ret = h]

\* activeAnimationsRef.current.push(tl)
StepPush(s) ==
    [s EXCEPT !.reg = Append(s.reg, s.ret),
              !.trace = Append(s.trace, [ev |-> "push", tl |-> s.ret])]

FlyBodyStartLast(s, i, sourceElement, targetElement, config) ==
    StepOnStart(StepPush(StepBuild(s, i, sourceElement, targetElement, config)), config)

FlyBody(s, i, sourceElement, targetElement, config) ==
    StepPush(StepBuild(StepOnStart(s, config), i, sourceElement, targetElement, config))

IsNullCallBothOnly(sourceElement, targetElement) ==
    sourceElement = NullEl /\ targetElement = NullEl

\* The null guard of flyToTarget
IsNullCall(sourceElement, targetElement) ==
    sourceElement = NullEl \/ targetElement = NullEl

flyToTarget(i, sourceElement, targetElement, userConfig) ==
    LET config == MergeConfig(userConfig)
        s0 == [reg |-> activeAnimationsRef[i], tls |-> timelines,
               trace |-> <<>>, ret |-> NullTl]
        s1 == FlyBody(s0, i, sourceElement, targetElement, config)
    IN  IF IsNullCall(sourceElement, targetElement)
        THEN /\ lastCall' = FlyCall(i, sourceElement, targetElement, userConfig, "none",
                                    NullTl,
                                    FALSE, <<Ev("warn")>>)
             /\ UNCHANGED <<activeAnimationsRef, timelines>>
        ELSE IF sourceElement = NullEl \/ targetElement = NullEl
        THEN \* getBoundingClientRect() of null past the guard: TypeError
             /\ lastCall' = FlyCall(i, sourceElement, targetElement, userConfig,
                                    "none", NullTl, TRUE, <<>>)
             /\ UNCHANGED <<activeAnimationsRef, timelines>>
        ELSE IF config.onStart = "undefined"
        THEN \* config.onStart is not a function: TypeError, nothing returned
             /\ lastCall' = FlyCall(i, sourceElement, targetElement, userConfig,
                                    config.onStart, NullTl, TRUE, <<>>)
             /\ UNCHANGED <<activeAnimationsRef, timelines>>
        ELSE /\ Len(timelines) < MaxTimelines
             /\ timelines' = s1.tls
             /\ activeAnimationsRef' = [activeAnimationsRef EXCEPT ![i] = s1.reg]
             /\ lastCall' = FlyCall(i, sourceElement, targetElement, userConfig,
                                    config.onStart, s1.ret, FALSE, s1.trace)

\* ---------------------------------------------------------------- playback

\* One tick of the gsap ticker, dt later: the running timelines are rendered
\* in the order they were created; each advances to min(time + dt, duration),
\* and one that reaches its duration is complete and its onComplete is
\* dispatched before the next timeline is rendered.  flyToTarget attaches
\* nothing but config.onComplete to the timeline, so activeAnimationsRef
\* changes only if that callback calls the hook: "fnKillAll" is a callback
\* that calls killAll() of the hook that created the timeline.
AdvanceKilledToo(t, dt) ==
    LET d == TimelineDuration(t.children)
        now == Min(t.time + dt, d)
    IN  IF t.status = "completed" THEN t
        ELSE IF now = d
             THEN [t EXCEPT !.time = now, !.status = "completed",
                            !.completes = @ + 1]
             ELSE [t EXCEPT !.time = now]

Advance(t, dt) ==
    LET d == TimelineDuration(t.children)
        now == Min(t.time + dt, d)
    IN  IF t.status # "running" THEN t
        ELSE IF now = d
             THEN [t EXCEPT !.time = now, !.status = "completed",
                            !.completes = @ + 1]
             ELSE [t EXCEPT !.time = now]

\* s = [regs, tls, trace]: every hook's array, the timelines, the effects
DispatchOnComplete(s, h) ==
    LET i == s.tls[h].owner
        s1 == [s EXCEPT !.trace = Append(s.trace, [ev |-> "onComplete", tl |-> h])]
        k == KillAllBody([reg |-> s1.regs[i], tls |-> s1.tls, trace |-> s1.trace,
                          ret |-> NullTl])
    IN  IF s.tls[h].onComplete = "fnKillAll"
        THEN [regs |-> [s1.regs EXCEPT ![i] = k.reg], tls |-> k.tls, trace |-> k.trace]
        ELSE s1

\* The render of timeline h in a tick: t is the timeline advanced by dt
Rendered(s, h, t) ==
    IF s.tls[h].status = "running" /\ t.status = "completed"
    THEN DispatchOnComplete([s EXCEPT !.tls[h] = t], h)
    ELSE [s EXCEPT !.tls[h] = t]

RenderOne(s, h, dt) ==
    CHOOSE r \in {Rendered(s, h, t) : t \in {Advance(s.tls[h], dt)}} : TRUE

\* The renders of timelines h, h + 1, ... in that order, each on the state
\* the one before it left
RECURSIVE RenderFrom(_, _, _)
RenderFrom(s, h, dt) ==
    IF h > Len(s.tls) THEN s
    ELSE CHOOSE r \in {RenderFrom(s1, h + 1, dt) : s1 \in {RenderOne(s, h, dt)}} : TRUE

Tick(dt) ==
    /\ \E h \in 1..Len(timelines) : timelines[h].status = "running"
    /\ \E s \in {RenderFrom([regs |-> activeAnimationsRef, tls |-> timelines,
                              trace |-> <<>>], 1, dt)} :
          /\ timelines' = s.tls
          /\ activeAnimationsRef' = s.regs
          /\ lastCall' = Call("tick", "none", s.trace)

\* ---------------------------------------------------------------- the system

\* What callers pass as userConfig: nothing, partial overrides, callbacks, and
\* callbacks given explicitly as undefined.
UserConfigs ==
    { [motionDuration |-> 1, scale |-> FALSE, onComplete |-> "undefined"],
      [motionDuration |-> 1, scaleUpDuration |-> 1, scalePause |-> 0,
       scaleDownDuration |-> 0, onStart |-> "fnKillAll", onComplete |-> "fnKillAll"],
      [onStart |-> "undefined"] }

TickSteps == {1, 2}

\* useFlyToTarget(): useRef([]) for each mounted hook; nothing has run yet
Init ==
    /\ activeAnimationsRef = [i \in Instances |-> <<>>]
    /\ timelines = <<>>
    /\ lastCall = NoCall

Next ==
    \/ \E i \in Instances, src \in Sources, tgt \in Targets, userConfig \in UserConfigs :
            flyToTarget(i, src, tgt, userConfig)
    \/ \E i \in Instances, src \in Sources \cup {NullEl}, tgt \in Targets \cup {NullEl} :
            /\ src = NullEl \/ tgt = NullEl
            /\ flyToTarget(i, src, tgt, <<>>)
    \/ \E i \in Instances : killAll(i)
    \/ \E i \in Instances, timeline \in 0..Len(timelines) : kill(i, timeline)
    \/ \E dt \in TickSteps : Tick(dt)

Spec == Init /\ [][Next]_vars

\* Playback of one hook's timelines with the default timing and other
\* durations, under a ticker that keeps ticking while a timeline is running.
PlayConfigs ==
    { <<>>,
      [motionDuration |-> 16, scalePause |-> 1, onComplete |-> "fn"],
      [motionDuration |-> 2, scale |-> FALSE, onComplete |-> "undefined"] }

PlaySteps == {4, 9}

PlayNext ==
    \/ \E src \in Sources, tgt \in Targets, userConfig \in PlayConfigs :
            flyToTarget("A", src, tgt, userConfig)
    \/ \E timeline \in 1..Len(timelines) : kill("A", timeline)
    \/ \E dt \in PlaySteps : Tick(dt)

PlaySpec ==
    Init /\ [][PlayNext]_vars /\ WF_vars(\E dt \in PlaySteps : Tick(dt))

\* One hook alone: its calls and the playback of its timelines, callbacks
\* that call killAll or kill included.
OneHookConfigs ==
    UserConfigs \cup {[motionDuration |-> 2, scale |-> FALSE, onStart |-> "fnKill"]}

OneHookNext ==
    \/ \E src \in Sources, tgt \in Targets, userConfig \in OneHookConfigs :
            flyToTarget("A", src, tgt, userConfig)
    \/ killAll("A")
    \/ \E timeline \in 0..Len(timelines) : kill("A", timeline)
    \/ \E dt \in TickSteps : Tick(dt)

OneHookSpec == Init /\ [][OneHookNext]_vars

\* What flyToTarget composes for one hook from different layouts (a flight
\* to the right, diagonal ones, a dart that already sits on its target)
\* and configs: swoops of both signs and none, motion durations of 0.1 s and
\* 3 s, other scale timings and values, scale or shadow off, an anchor tag
\* that getTargetPoint does not know.
ComposeSources == {"dart", "dartOnBoard"}
ComposeTargets == {"board", "rack"}

ComposeConfigs ==
    { <<>>,
      [swoopAmount |-> -50],
      [swoopAmount |-> 50],
      [swoopAmount |-> 0, targetPosition |-> "bullseye"],
      [motionDuration |-> 2],
      [motionDuration |-> 60],
      [scaleStartDelay |-> 0, scaleUpDuration |-> 0, scalePause |-> 2,
       enableShadow |-> FALSE],
      [grabScale |-> 10, scalePeak |-> 30, scaleTarget |-> 5, baseShadowBlur |-> 6,
       scaleStartDelay |-> 2, scaleUpDuration |-> 6, scalePause |-> 1],
      [scale |-> FALSE, swoopAmount |-> 0] }

ComposeNext ==
    \E src \in ComposeSources, tgt \in ComposeTargets, userConfig \in ComposeConfigs :
        flyToTarget("A", src, tgt, userConfig)

ComposeSpec == Init /\ [][ComposeNext]_vars

\* What flyToTarget composes for every anchor tag, for a tag that
\* getTargetPoint does not know, for no tag, and for offsets from the anchor,
\* with the dart in the hand and the dart already moved onto the board.
AnchorTags ==
    {"center", "topLeft", "topCenter", "topRight", "leftCenter", "rightCenter",
     "bottomLeft", "bottomCenter", "bottomRight"}

AnchorConfigs ==
    { [targetPosition |-> tag, swoopAmount |-> 0] : tag \in AnchorTags }
    \cup { <<>>,
           [targetPosition |-> "middle"],
           [targetPositionOffset |-> [x |-> -8, y |-> 4]],
           [targetPosition |-> "bottomRight",
            targetPositionOffset |-> [x |-> 20, y |-> -12], swoopAmount |-> 0] }

AnchorNext ==
    \E src \in ComposeSources, userConfig \in AnchorConfigs :
        flyToTarget("A", src, "board", userConfig)

AnchorSpec == Init /\ [][AnchorNext]_vars

\* ---------------------------------------------------------------- properties

Handles == 1..Len(timelines)
Range(seq) == {seq[k] : k \in 1..Len(seq)}
Registered(h) == \E i \in Instances : h \in Range(activeAnimationsRef[i])
Status(h) == timelines[h].status
Running(h) == h \in Handles /\ Status(h) = "running"
\* the timelines a call invoked kill() on, and the events of one kind in a trace
Killed(trace) == {trace[k].tl : k \in {n \in 1..Len(trace) : trace[n].ev = "kill"}}
Count(trace, name) == Cardinality({k \in 1..Len(trace) : trace[k].ev = name})
Without(handles, h) == SelectSeq(handles, LAMBDA x : x # h)

\* C1: in every reachable state a handle is in a registry if and only if its
\* schedule has started and has neither completed nor been cancelled.
C1_RegisteredIffRunning ==
    \A h \in Handles : Registered(h) <=> Status(h) = "running"

\* C2: once the engine has reported the natural completion of a schedule, its
\* handle is no longer in the registry, with no kill or killAll call needed.
C2_CompletedIsUnregistered ==
    \A h \in Handles : Status(h) = "completed" => ~Registered(h)

\* C3: flyToTarget with a null source or a null target returns null and does
\* nothing else: it does not throw, calls neither onStart nor gsap (no
\* timeline, no tween, no immediate scale or shadow), and leaves every
\* registry and every timeline as they were.
C3_NullCallDoesNothing ==
    [][(lastCall'.op = "flyToTarget"
        /\ (lastCall'.source = NullEl \/ lastCall'.target = NullEl))
       => /\ lastCall'.ret = NullTl
          /\ ~lastCall'.threw
          /\ lastCall'.trace = <<Ev("warn")>>
          /\ UNCHANGED <<activeAnimationsRef, timelines>>]_vars

\* C3 witness: a null call made while a timeline is running and registered
C3_Witness ==
    /\ lastCall.op = "flyToTarget"
    /\ lastCall.source # NullEl
    /\ lastCall.target = NullEl
    /\ lastCall.ret = NullTl
    /\ \E h \in Handles : Registered(h) /\ Status(h) = "running"

\* C4: a flyToTarget call with a source and a target returns a fresh non-null
\* timeline, and all it does to the registries and the timelines is to add
\* that timeline to the caller's array: the array is the old one plus the
\* returned timeline, the other hook's array and every earlier timeline
\* (one still running on the same source element included) are as they were.
\* (What an onStart callback itself does by calling killAll is left out.)
C4_CallAddsFreshTimeline ==
    [][(/\ lastCall'.op = "flyToTarget"
        /\ lastCall'.source # NullEl
        /\ lastCall'.target # NullEl
        /\ lastCall'.onStart # "fnKillAll")
       => LET i == lastCall'.inst
              h == lastCall'.ret
          IN  /\ h # NullTl
              /\ h \notin Handles
              /\ activeAnimationsRef'[i] = Append(activeAnimationsRef[i], h)
              /\ \A j \in Instances \ {i} :
                    activeAnimationsRef'[j] = activeAnimationsRef[j]
              /\ \A k \in Handles : timelines'[k] = timelines[k]]_vars

\* C5: every flyToTarget call that returns a timeline has invoked onStart
\* exactly once, first of all its effects: before gsap.timeline(), before any
\* tween is added and before the push, so that the callback cannot see or
\* cancel the timeline being started.
C5_OnStartOnceBeforeTimeline ==
    [][(lastCall'.op = "flyToTarget" /\ lastCall'.ret # NullTl)
       => LET t == lastCall'.trace
              h == lastCall'.ret
          IN  /\ Count(t, "onStart") = 1
              /\ t[1].ev = "onStart"
              /\ \A k \in 1..Len(t) : t[k].tl = h => k > 1
              /\ \E k, n \in 2..Len(t) :
                    /\ k < n
                    /\ t[k] = [ev |-> "timeline", tl |-> h]
                    /\ t[n] = [ev |-> "push", tl |-> h]
              /\ h \notin Handles
              /\ h \notin Killed(t)
              /\ timelines'[h].status = "running"
              /\ timelines'[h].time = 0]_vars

\* C5 witness: a call whose onStart callback cancelled an earlier timeline and
\* which returned its own timeline running
C5_Witness ==
    /\ lastCall.op = "flyToTarget"
    /\ lastCall.ret # NullTl
    /\ lastCall.onStart = "fnKillAll"
    /\ Killed(lastCall.trace) # {}
    /\ Status(lastCall.ret) = "running"

\* C6: the completion of a timeline is dispatched exactly once for a timeline
\* that is not cancelled, and not before every track has finished: never
\* while it is running, and when it is dispatched the playhead is at the end
\* of the longest track, at or after motionDuration and, with scale, at or
\* after the end of the scale-up and scale-down tweens.  Under a ticker that
\* keeps ticking, every running timeline is eventually complete or cancelled.
C6_TrackEnds(h) == {EndTime(timelines[h].children[k]) : k \in DOMAIN timelines[h].children}

C6_CompletedAtEnd(h) ==
    LET t == timelines[h]
        c == t.config
    IN  /\ t.completes <= 1
        /\ t.status = "running" => t.completes = 0
        /\ t.status = "completed"
           => /\ t.completes = 1
              /\ t.time >= c.motionDuration
              /\ \A e \in C6_TrackEnds(h) : t.time >= e
              /\ t.time \in C6_TrackEnds(h)
              /\ c.scale =>
                    \E u, d \in DOMAIN t.children :
                        /\ t.children[u].prop = "scaleUp"
                        /\ t.children[d].prop = "scaleDown"
                        /\ t.children[d].start >= EndTime(t.children[u])
                        /\ t.time >= EndTime(t.children[d])

C6_OnCompleteOnceAtEnd ==
    /\ [](\A h \in Handles : C6_CompletedAtEnd(h))
    /\ \A h \in 1..MaxTimelines :
          [](Running(h) => <>(~Running(h)))

\* C6 witness: two completed timelines, one whose scale track outlasted its
\* motion tween and one whose motion tween outlasted its scale track
C6_Witness ==
    \E g, h \in Handles :
        /\ Status(g) = "completed" /\ Status(h) = "completed"
        /\ timelines[g].config.scale /\ timelines[h].config.scale
        /\ timelines[g].time > timelines[g].config.motionDuration
        /\ timelines[h].time = timelines[h].config.motionDuration
        /\ timelines[h].time > timelines[h].children[3].start
                               + timelines[h].children[3].duration

\* C7: killAll invokes kill() once on every timeline that is in the caller's
\* array when it is called, in array order and on no other timeline, and
\* leaves that array empty and the other hook's array alone; on an empty
\* array it invokes no kill() and changes nothing.
C7_KillAllCancelsAllAndClears ==
    [][lastCall'.op = "killAll"
       => LET i == lastCall'.inst
              reg == activeAnimationsRef[i]
          IN  /\ lastCall'.trace = [k \in 1..Len(reg) |-> [ev |-> "kill", tl |-> reg[k]]]
              /\ activeAnimationsRef'[i] = <<>>
              /\ \A j \in Instances \ {i} :
                    activeAnimationsRef'[j] = activeAnimationsRef[j]
              /\ \A h \in Handles :
                    /\ h \in Range(reg) => timelines'[h].status # "running"
                    /\ h \notin Range(reg) => timelines'[h] = timelines[h]
              /\ reg = <<>> => UNCHANGED <<activeAnimationsRef, timelines>>]_vars

\* C7 witness: a killAll that invoked kill() on two timelines, one of them
\* already completed, and left the array empty
C7_Witness ==
    /\ lastCall.op = "killAll"
    /\ Cardinality(Killed(lastCall.trace)) = 2
    /\ \E h \in Killed(lastCall.trace) : Status(h) = "completed"
    /\ \E h \in Killed(lastCall.trace) : Status(h) = "killed"
    /\ activeAnimationsRef[lastCall.inst] = <<>>

\* C8 (as claimed): kill(timeline) cancels and removes a timeline that is in
\* the caller's array; given one that is not (null, another hook's, already
\* removed) it invokes no kill() and changes no timeline and no array.
C8_KillIsNoOpWhenAbsent ==
    [][lastCall'.op = "kill"
       => LET i == lastCall'.inst
              h == lastCall'.tl
          IN  IF h # NullTl /\ h \in Range(activeAnimationsRef[i])
              THEN /\ lastCall'.trace = <<[ev |-> "kill", tl |-> h]>>
                   /\ activeAnimationsRef'[i] = Without(activeAnimationsRef[i], h)
              ELSE /\ lastCall'.trace = <<>>
                   /\ UNCHANGED <<activeAnimationsRef, timelines>>]_vars

\* C8 (amended): kill(timeline) with a non-null timeline always invokes kill()
\* on it, in the caller's array or not: a running timeline is cancelled (also
\* one that another hook registered, which stays in that hook's array), a
\* completed or cancelled one keeps its state; the caller's array loses
\* exactly that timeline if it holds it, every other array and timeline is
\* unchanged.  kill(null) invokes nothing and changes nothing.
C8_KillCancelsAnyTimeline ==
    [][lastCall'.op = "kill"
       => LET i == lastCall'.inst
              h == lastCall'.tl
          IN  IF h = NullTl
              THEN /\ lastCall'.trace = <<>>
                   /\ UNCHANGED <<activeAnimationsRef, timelines>>
              ELSE /\ lastCall'.trace = <<[ev |-> "kill", tl |-> h]>>
                   /\ timelines'[h].status =
                         (IF Status(h) = "running" THEN "killed" ELSE Status(h))
                   /\ \A g \in Handles \ {h} : timelines'[g] = timelines[g]
                   /\ activeAnimationsRef'[i] = Without(activeAnimationsRef[i], h)
                   /\ \A j \in Instances \ {i} :
                         activeAnimationsRef'[j] = activeAnimationsRef[j]]_vars

\* C8 witness: kill() called by a hook on a running timeline that the other
\* hook registered: the timeline is cancelled and is still in its owner's array
C8_Witness ==
    /\ lastCall.op = "kill"
    /\ lastCall.tl # NullTl
    /\ ~lastCall.present
    /\ lastCall.before = "running"
    /\ timelines[lastCall.tl].owner # lastCall.inst
    /\ Status(lastCall.tl) = "killed"
    /\ lastCall.tl \in Range(activeAnimationsRef[timelines[lastCall.tl].owner])

\* C9 (as claimed): over any sequence of killAll and kill calls kill() is
\* invoked at most once on a timeline: neither call invokes kill() on a
\* timeline that an earlier killAll or kill has already cancelled.
C9_CancelAtMostOnce ==
    [][lastCall'.op \in {"kill", "killAll"}
       => \A h \in Killed(lastCall'.trace) : Status(h) # "killed"]_vars

\* C9 (amended): killAll leaves the caller's array empty; a later killAll of
\* that hook, finding the array empty, invokes no kill() and changes nothing;
\* a later kill(h) on a timeline that is no longer running and no longer in
\* the caller's array does invoke h.kill() again, and that repeated
\* invocation changes no timeline and no array.
C9_RepeatedCancelHasNoEffect ==
    [][/\ lastCall'.op = "killAll"
          => /\ activeAnimationsRef'[lastCall'.inst] = <<>>
             /\ activeAnimationsRef[lastCall'.inst] = <<>>
                => /\ lastCall'.trace = <<>>
                   /\ UNCHANGED <<activeAnimationsRef, timelines>>
       /\ (/\ lastCall'.op = "kill"
           /\ lastCall'.tl # NullTl
           /\ lastCall'.tl \notin Range(activeAnimationsRef[lastCall'.inst]))
          => /\ lastCall'.trace = <<[ev |-> "kill", tl |-> lastCall'.tl]>>
             /\ Status(lastCall'.tl) # "running"
                => UNCHANGED <<activeAnimationsRef, timelines>>]_vars

\* C9 witness: kill(h) called again on a timeline that was already cancelled
\* and removed from the caller's own array
C9_Witness ==
    /\ lastCall.op = "kill"
    /\ lastCall.tl # NullTl
    /\ lastCall.before = "killed"
    /\ ~lastCall.present
    /\ timelines[lastCall.tl].owner = lastCall.inst
    /\ lastCall.trace = <<[ev |-> "kill", tl |-> lastCall.tl]>>
    /\ activeAnimationsRef[lastCall.inst] = <<>>

\* C10: a timeline goes one way from running to completed or to killed and
\* stays there; kill() is never invoked on a timeline that has completed.
C10_TerminalOneWayNoCancelAfterComplete ==
    [][\A h \in Handles :
          /\ Status(h) # "running" => timelines'[h].status = Status(h)
          /\ Status(h) = "completed" => h \notin Killed(lastCall'.trace)]_vars

\* C11 (as claimed): no call on one hook changes the other hook's array or
\* cancels a timeline that the other hook created.
C11_NoEffectOnOtherInstance ==
    [][lastCall'.op \in {"flyToTarget", "kill", "killAll"}
       => LET i == lastCall'.inst
          IN  /\ \A j \in Instances \ {i} :
                    activeAnimationsRef'[j] = activeAnimationsRef[j]
              /\ \A h \in Handles :
                    timelines[h].owner # i => timelines'[h] = timelines[h]]_vars

\* C11 (amended): no call on one hook changes the other hook's array;
\* flyToTarget (an onStart callback that calls killAll included) and killAll
\* change no timeline that the other hook created; kill(timeline) cancels
\* the timeline it is given even if the other hook created it, and changes
\* no other timeline of the other hook.
C11_RegistriesIsolated ==
    [][lastCall'.op \in {"flyToTarget", "kill", "killAll"}
       => LET i == lastCall'.inst
          IN  /\ \A j \in Instances \ {i} :
                    activeAnimationsRef'[j] = activeAnimationsRef[j]
              /\ \A h \in Handles :
                    (timelines[h].owner # i /\ timelines'[h] # timelines[h])
                    => /\ lastCall'.op = "kill"
                       /\ lastCall'.tl = h
                       /\ Status(h) = "running"
                       /\ timelines'[h] = [timelines[h] EXCEPT !.status = "killed"]]_vars

\* C11 witness: a killAll of one hook that cancelled its own timeline while
\* the other hook's timeline kept running in the other hook's array
C11_Witness ==
    /\ lastCall.op = "killAll"
    /\ Killed(lastCall.trace) # {}
    /\ \E h \in Handles :
          /\ timelines[h].owner # lastCall.inst
          /\ Status(h) = "running"
          /\ h \in Range(activeAnimationsRef[timelines[h].owner])

\* C12: kill and killAll can be called at any point of the playback, from
\* inside a completion callback included: whenever kill() has been invoked
\* on a timeline, by a kill or killAll call or by an onComplete callback that
\* calls killAll, the arrays afterwards hold no timeline that is completed or
\* cancelled and miss no timeline that is still running.
C12_CancelLeavesRegistryExact ==
    [][(lastCall'.op \in {"kill", "killAll"} \/ Killed(lastCall'.trace) # {})
       => \A h \in 1..Len(timelines') :
             (h \in Range(activeAnimationsRef'[timelines'[h].owner]))
             <=> timelines'[h].status = "running"]_vars

\* C13: when the motion starts where it ends and swoopAmount is not 0, the
\* motion tween is the direct one (x, y, no motionPath) and no coordinate of
\* the timeline is NaN.
C13_Start(h) == StartPoint(timelines[h].targets)

C13_End(h) == EndPoint(timelines[h].targets, timelines[h].flownTo, timelines[h].config)

C13_DegenerateMotionIsDirect ==
    \A h \in Handles :
        (C13_Start(h) = C13_End(h) /\ timelines[h].config.swoopAmount # 0)
        => LET motion == timelines[h].children[1].vars
           IN  /\ "motionPath" \notin DOMAIN motion
               /\ "x" \in DOMAIN motion /\ "y" \in DOMAIN motion
               /\ motion.x = C13_End(h).x
               /\ motion.y = C13_End(h).y

\* C14: with scale enabled the scale-down tween starts at scaleStartDelay +
\* scaleUpDuration + scalePause, that is scalePause after the end of the
\* scale-up tween.
C14_ScaleDownStartsAfterPause ==
    \A h \in Handles :
        timelines[h].config.scale
        => LET c == timelines[h].config
               up == timelines[h].children[2]
               down == timelines[h].children[3]
           IN  /\ up.prop = "scaleUp" /\ down.prop = "scaleDown"
               /\ down.start = c.scaleStartDelay + c.scaleUpDuration + c.scalePause
               /\ down.start - EndTime(up) = c.scalePause

\* C15: the scale and shadow tracks do not depend on motionDuration, and the
\* motion track does not depend on the scale fields: two timelines whose
\* configs differ at most in motionDuration have the same scale-up and
\* scale-down tweens (start, duration, values, easings, shadows) and the
\* same immediate settings; every motion tween starts at 0 and lasts
\* motionDuration, and two timelines for the same elements whose configs
\* differ at most in scale and shadow fields have the same motion tween.
C15_ScaleFields ==
    {"scale", "grabScale", "scaleStartDelay", "scaleUpDuration", "scaleUpEase",
     "scalePeak", "scalePause", "scaleDownDuration", "scaleDownEase",
     "scaleTarget", "enableShadow", "baseShadowBlur"}

C15_AgreeExcept(g, h, fields) ==
    \A f \in DOMAIN DEFAULT_CONFIG \ fields :
        timelines[g].config[f] = timelines[h].config[f]

C15_MotionAndScaleIndependent ==
    \A g, h \in Handles :
        /\ timelines[h].children[1].start = 0
        /\ timelines[h].children[1].duration = timelines[h].config.motionDuration
        /\ C15_AgreeExcept(g, h, {"motionDuration"})
           => /\ Tail(timelines[g].children) = Tail(timelines[h].children)
              /\ timelines[g].set = timelines[h].set
        /\ (/\ C15_AgreeExcept(g, h, C15_ScaleFields)
            /\ timelines[g].targets = timelines[h].targets
            /\ timelines[g].flownTo = timelines[h].flownTo)
           => timelines[g].children[1] = timelines[h].children[1]

\* C15 witness: two timelines with motionDuration 0.1 s and 3 s and the same
\* scale tweens, whose scale-down starts before the longer motion ends
C15_Witness ==
    \E g, h \in Handles :
        /\ timelines[g].config.motionDuration = 2
        /\ timelines[h].config.motionDuration = 60
        /\ C15_AgreeExcept(g, h, {"motionDuration"})
        /\ timelines[g].config.scale
        /\ timelines[g].children[3].start = timelines[h].children[3].start
        /\ timelines[h].children[3].start < 60
        /\ timelines[g].children[3].start > 2

\* C16: for start # end and swoopAmount # 0 the control point is the midpoint
\* of start and end moved by swoopAmount along the unit vector of (-dy, dx):
\* the offset from the midpoint is perpendicular to end - start, has length
\* |swoopAmount| and points to the side of (-dy, dx) for a positive and to
\* the other side for a negative swoopAmount; start (100,100), end (300,100),
\* swoopAmount -50 give (200,50).  (Stated for the distances that are whole
\* numbers; the others are not computed exactly here.)
C16_ControlPointOnPerpendicular ==
    \A h \in Handles :
        LET start == C13_Start(h)
            end == C13_End(h)
            swoop == timelines[h].config.swoopAmount
            dx == end.x - start.x
            dy == end.y - start.y
        IN  (start # end /\ swoop # 0)
            => LET control == timelines[h].children[1].vars.motionPath.path[2]
                   offX == control.x - (start.x + end.x) \div 2
                   offY == control.y - (start.y + end.y) \div 2
               IN  /\ ~control.nan
                   /\ control.exact
                      => /\ offX * dx + offY * dy = 0
                         /\ offX * offX + offY * offY = swoop * swoop
                         /\ (offX * (-dy) + offY * dx) * swoop > 0
                   /\ (start = [x |-> 100, y |-> 100] /\ end = [x |-> 300, y |-> 100]
                         /\ swoop = -50)
                      => control.exact /\ control.x = 200 /\ control.y = 50

\* C16 witness: the flight from (100,100) to (300,100) with swoopAmount -50
\* and a diagonal flight with a positive swoopAmount
C16_Witness ==
    \E g, h \in Handles :
        /\ C13_Start(g) = [x |-> 100, y |-> 100]
        /\ C13_End(g) = [x |-> 300, y |-> 100]
        /\ timelines[g].config.swoopAmount = -50
        /\ timelines[g].children[1].vars.motionPath.path[2].y = 50
        /\ timelines[h].config.swoopAmount = 50
        /\ C13_End(h).x # C13_Start(h).x /\ C13_End(h).y # C13_Start(h).y
        /\ timelines[h].children[1].vars.motionPath.path[2].exact

\* C17: the config a flyToTarget call works with has every field of
\* DEFAULT_CONFIG, with the caller's value where the caller gave one and the
\* default where the caller gave none or gave undefined.
C17_MergeFallsBackToDefault ==
    [][(lastCall'.op = "flyToTarget" /\ lastCall'.ret # NullTl)
       => LET user == lastCall'.userConfig
              config == timelines'[lastCall'.ret].config
              Given(f) == /\ f \in DOMAIN user
                          /\ ~(f \in {"onStart", "onComplete"} /\ user[f] = "undefined")
          IN  /\ DOMAIN config = DOMAIN DEFAULT_CONFIG
              /\ \A f \in DOMAIN DEFAULT_CONFIG :
                    config[f] = IF Given(f) THEN user[f] ELSE DEFAULT_CONFIG[f]]_vars

\* C18: no call of flyToTarget, kill or killAll throws, whatever it is given.
C18_NoCallThrows ==
    lastCall.op \in {"flyToTarget", "kill", "killAll"} => ~lastCall.threw

\* C19: the motion track of a timeline is one tween, the first child, at
\* start 0 with duration motionDuration and ease motionEase; with swoopAmount
\* 0 it is the direct tween to x, y (no control point, no motionPath) and
\* with another swoopAmount the motionPath start, control point, end; in both
\* the end is the current translation plus the way from the source's center
\* to the target's anchor (here the center) moved by targetPositionOffset.
C19_AnchoredEnd(h) ==
    LET c == timelines[h].config
        sourceRect == getBoundingClientRect(timelines[h].targets)
        targetRect == getBoundingClientRect(timelines[h].flownTo)
    IN  [x |-> getProperty(timelines[h].targets, "x")
               + (targetRect.left + targetRect.width \div 2 + c.targetPositionOffset.x)
               - (sourceRect.left + sourceRect.width \div 2),
         y |-> getProperty(timelines[h].targets, "y")
               + (targetRect.top + targetRect.height \div 2 + c.targetPositionOffset.y)
               - (sourceRect.top + sourceRect.height \div 2)]

C19_MotionTrackIsOnePhase ==
    \A h \in Handles :
        LET c == timelines[h].config
            children == timelines[h].children
            motion == children[1]
        IN  /\ {k \in DOMAIN children : children[k].prop = "motion"} = {1}
            /\ motion.start = 0
            /\ motion.duration = c.motionDuration
            /\ motion.vars.ease = c.motionEase
            /\ c.swoopAmount = 0
               => /\ "motionPath" \notin DOMAIN motion.vars
                  /\ motion.vars.x = C19_AnchoredEnd(h).x
                  /\ motion.vars.y = C19_AnchoredEnd(h).y
            /\ c.swoopAmount # 0
               => /\ DOMAIN motion.vars \cap {"x", "y"} = {}
                  /\ Len(motion.vars.motionPath.path) = 3
                  /\ motion.vars.motionPath.path[1]
                        = [x |-> getProperty(timelines[h].targets, "x"),
                           y |-> getProperty(timelines[h].targets, "y")]
                  /\ motion.vars.motionPath.path[3] = C19_AnchoredEnd(h)

\* C19 witness: a direct flight to (300,100) and a curved flight to the same
\* end with the other motion duration
C19_Witness ==
    \E g, h \in Handles :
        /\ timelines[g].config.swoopAmount = 0
        /\ timelines[g].children[1].vars.x = 300
        /\ timelines[g].children[1].vars.y = 100
        /\ timelines[h].config.swoopAmount # 0
        /\ timelines[h].config.motionDuration = 60
        /\ timelines[h].children[1].duration = 60
        /\ timelines[h].children[1].vars.motionPath.path[3] = [x |-> 300, y |-> 100]

\* C20: with scale and enableShadow the shadow set at once has the blur
\* baseShadowBlur * grabScale, the shadow of the scale-up tween the blur
\* baseShadowBlur * scalePeak * 0.5 and the shadow of the scale-down tween
\* the blur 0 whatever scaleTarget is (4.8 px, 5.0 px and 0 for 4, 1.2 and
\* 2.5); the three depend on no other field.  Blurs are in twentieths of a
\* pixel, the scales in tenths.
C20_ShadowBlurs ==
    \A h \in Handles :
        LET c == timelines[h].config
        IN  (c.scale /\ c.enableShadow)
            => LET initial == timelines[h].set[1].boxShadow.blur
                   up == timelines[h].children[2].vars.boxShadow.blur
                   down == timelines[h].children[3].vars.boxShadow.blur
               IN  /\ Len(timelines[h].set) = 1
                   /\ initial * 10 = c.baseShadowBlur * c.grabScale * 20
                   /\ up * 10 * 2 = c.baseShadowBlur * c.scalePeak * 20
                   /\ down = 0
                   /\ (c.baseShadowBlur = 4 /\ c.grabScale = 12 /\ c.scalePeak = 25)
                      => initial = 96 /\ up = 100

\* C20 witness: the default shadow (4.8 px, 5.0 px, 0) and a shadow with
\* other scale values whose scale-down blur is 0 for a scaleTarget of 0.5
C20_Witness ==
    \E g, h \in Handles :
        /\ timelines[g].config.scale /\ timelines[g].config.enableShadow
        /\ timelines[h].config.scale /\ timelines[h].config.enableShadow
        /\ timelines[g].set[1].boxShadow.blur = 96
        /\ timelines[g].children[2].vars.boxShadow.blur = 100
        /\ timelines[g].children[3].vars.boxShadow.blur = 0
        /\ timelines[h].config.scaleTarget = 5
        /\ timelines[h].set[1].boxShadow.blur = 120
        /\ timelines[h].children[2].vars.boxShadow.blur = 180
        /\ timelines[h].children[3].vars.boxShadow.blur = 0

\* The end of the motion of timeline h: the x, y of the direct tween or the
\* last point of the motionPath
MotionEnd(h) ==
    LET motion == timelines[h].children[1].vars
    IN  IF "motionPath" \in DOMAIN motion
        THEN motion.motionPath.path[3]
        ELSE [x |-> motion.x, y |-> motion.y]

\* C21: the motion ends at the translation that puts the source's center on
\* the resolved target point, whatever translation the source has when
\* flyToTarget is called: the center of the untranslated rectangle (the
\* rectangle read, moved back by the current translation) plus the end point
\* is the target point, so two calls that differ only in the translation the
\* source already has end at the same translation.
C21_UntranslatedCenter(h) ==
    LET rect == getBoundingClientRect(timelines[h].targets)
    IN  [x |-> rect.left + rect.width \div 2 - getProperty(timelines[h].targets, "x"),
         y |-> rect.top + rect.height \div 2 - getProperty(timelines[h].targets, "y")]

C21_EndPutsCenterOnTarget ==
    \A g, h \in Handles :
        LET targetPoint == getTargetPoint(getBoundingClientRect(timelines[h].flownTo),
                                          timelines[h].config.targetPosition,
                                          timelines[h].config)
        IN  /\ C21_UntranslatedCenter(h).x + MotionEnd(h).x = targetPoint.x
            /\ C21_UntranslatedCenter(h).y + MotionEnd(h).y = targetPoint.y
            /\ (/\ C21_UntranslatedCenter(g) = C21_UntranslatedCenter(h)
                /\ timelines[g].flownTo = timelines[h].flownTo
                /\ timelines[g].config = timelines[h].config)
               => MotionEnd(g) = MotionEnd(h)

\* C21 witness: the same flight asked for with the dart at translation
\* (100,100) and at translation (300,100): both end at the same translation
C21_Witness ==
    \E g, h \in Handles :
        /\ getProperty(timelines[g].targets, "x") = 100
        /\ getProperty(timelines[h].targets, "x") = 300
        /\ timelines[g].config = timelines[h].config
        /\ timelines[g].config.targetPosition = "topRight"
        /\ MotionEnd(g) = MotionEnd(h)
        /\ MotionEnd(g) = [x |-> 380, y |-> 20]

\* C22: the target point is the corner, edge midpoint or center of the target
\* rectangle that the anchor tag names (left, center or right third by the
\* Left / Right in the tag, top, center or bottom by the top / bottom), the
\* center for any other tag, plus targetPositionOffset in both coordinates;
\* without targetPosition and targetPositionOffset it is the center.
C22_TargetPoint(h) ==
    LET rect == getBoundingClientRect(timelines[h].targets)
    IN  [x |-> MotionEnd(h).x - getProperty(timelines[h].targets, "x")
               + rect.left + rect.width \div 2,
         y |-> MotionEnd(h).y - getProperty(timelines[h].targets, "y")
               + rect.top + rect.height \div 2]

C22_AnchorResolution ==
    \A h \in Handles :
        LET rect == getBoundingClientRect(timelines[h].flownTo)
            tag == timelines[h].config.targetPosition
            offset == timelines[h].config.targetPositionOffset
            col == IF tag \in {"topLeft", "leftCenter", "bottomLeft"} THEN 0
                   ELSE IF tag \in {"topRight", "rightCenter", "bottomRight"} THEN 2
                   ELSE 1
            row == IF tag \in {"topLeft", "topCenter", "topRight"} THEN 0
                   ELSE IF tag \in {"bottomLeft", "bottomCenter", "bottomRight"} THEN 2
                   ELSE 1
        IN  /\ 2 * (C22_TargetPoint(h).x - offset.x) = 2 * rect.left + col * rect.width
            /\ 2 * (C22_TargetPoint(h).y - offset.y) = 2 * rect.top + row * rect.height
            /\ (h = lastCall.ret
                /\ DOMAIN lastCall.userConfig
                      \cap {"targetPosition", "targetPositionOffset"} = {})
               => /\ 2 * C22_TargetPoint(h).x = 2 * rect.left + rect.width
                  /\ 2 * C22_TargetPoint(h).y = 2 * rect.top + rect.height

\* C22 witness: flights to the shifted bottom right corner, to the top left
\* corner and, for a tag that is not an anchor, to the center of the board
C22_Witness ==
    \E f, g \in Handles :
        /\ timelines[f].config.targetPosition = "bottomRight"
        /\ timelines[f].config.targetPositionOffset = [x |-> 20, y |-> -12]
        /\ C22_TargetPoint(f) = [x |-> 500, y |-> 268]
        /\ timelines[g].config.targetPosition = "topLeft"
        /\ C22_TargetPoint(g) = [x |-> 320, y |-> 120]
        /\ lastCall.ret = g

\* C23: with scale the scale-up tween starts at scaleStartDelay, lasts
\* scaleUpDuration and goes from grabScale to scalePeak with ease scaleUpEase;
\* the scale-down tween lasts scaleDownDuration and goes to scaleTarget with
\* ease scaleDownEase.
C23_ScalePhases ==
    \A h \in Handles :
        timelines[h].config.scale
        => LET c == timelines[h].config
               up == timelines[h].children[2]
               down == timelines[h].children[3]
           IN  /\ Len(timelines[h].children) = 3
               /\ up.prop = "scaleUp"
               /\ up.start = c.scaleStartDelay
               /\ up.duration = c.scaleUpDuration
               /\ up.vars.from = [scale |-> c.grabScale]
               /\ up.vars.scale = c.scalePeak
               /\ up.vars.ease = c.scaleUpEase
               /\ down.prop = "scaleDown"
               /\ down.duration = c.scaleDownDuration
               /\ down.vars.scale = c.scaleTarget
               /\ down.vars.ease = c.scaleDownEase

\* C23 witness: a scale-up from 1.0 to 3.0 that starts 0.1 s into the
\* timeline and lasts 0.3 s, followed by a scale-down to 0.5
C23_Witness ==
    \E h \in Handles :
        /\ timelines[h].config.scale
        /\ timelines[h].children[2].start = 2
        /\ timelines[h].children[2].duration = 6
        /\ timelines[h].children[2].vars.from.scale = 10
        /\ timelines[h].children[2].vars.scale = 30
        /\ timelines[h].children[3].vars.scale = 5

\* C24: without scale the timeline has the motion tween and no other child,
\* and flyToTarget sets the scale of the source element once, by gsap.set, to
\* grabScale and sets nothing else.
C24_ScaleDisabledSetsGrabScale ==
    \A h \in Handles :
        ~timelines[h].config.scale
        => /\ Len(timelines[h].children) = 1
           /\ timelines[h].children[1].prop = "motion"
           /\ timelines[h].set = <<[scale |-> timelines[h].config.grabScale]>>
           /\ h = lastCall.ret
              => /\ Count(lastCall.trace, "set:scale") = 1
                 /\ Count(lastCall.trace, "set:boxShadow") = 0
                 /\ Count(lastCall.trace, "fromTo:scale") = 0
                 /\ Count(lastCall.trace, "to:scale") = 0

\* C24 witness: a call with scale: false whose timeline is the motion tween
\* alone and which set the scale to 1.2
C24_Witness ==
    /\ lastCall.op = "flyToTarget"
    /\ lastCall.ret # NullTl
    /\ ~timelines[lastCall.ret].config.scale
    /\ timelines[lastCall.ret].set = <<[scale |-> 12]>>
    /\ Len(timelines[lastCall.ret].children) = 1

\* C25: a shadow is set at once, and a shadow is on a tween, exactly if scale
\* and enableShadow are both true; the tweens that carry one are the scale-up
\* and the scale-down tween (so the shadow has their start, duration and
\* ease), never the motion tween.
C25_HasShadow(h) == timelines[h].config.scale /\ timelines[h].config.enableShadow

C25_ShadowOnlyWithScale ==
    \A h \in Handles :
        /\ (\E k \in DOMAIN timelines[h].set : "boxShadow" \in DOMAIN timelines[h].set[k])
           <=> C25_HasShadow(h)
        /\ \A k \in DOMAIN timelines[h].children :
              ("boxShadow" \in DOMAIN timelines[h].children[k].vars)
              <=> (C25_HasShadow(h)
                   /\ timelines[h].children[k].prop \in {"scaleUp", "scaleDown"})

\* C25 witness: enableShadow with scale off (no shadow anywhere), scale with
\* enableShadow off (no shadow anywhere)
C25_Witness ==
    \E g, h \in Handles :
        /\ timelines[g].config.enableShadow /\ ~timelines[g].config.scale
        /\ timelines[g].set = <<[scale |-> 12]>>
        /\ ~timelines[h].config.enableShadow /\ timelines[h].config.scale
        /\ timelines[h].set = <<>>
        /\ Len(timelines[h].children) = 3

\* C26: a timeline that kill or killAll has cancelled while it was running
\* never completes: from then on its playhead does not move, it stays
\* cancelled and its onComplete is never dispatched.
C26_CancelledNeverCompletes ==
    [][\A h \in Handles :
          Status(h) = "killed"
          => /\ timelines[h].completes = 0
             /\ timelines'[h] = timelines[h]
             /\ [ev |-> "onComplete", tl |-> h] \notin Range(lastCall'.trace)]_vars

\* C26 witness: a tick in which one timeline completed while a cancelled one,
\* whose end the tick would have reached, stayed as it was
C26_Witness ==
    /\ lastCall.op = "tick"
    /\ Count(lastCall.trace, "onComplete") = 1
    /\ \E h \in Handles :
          /\ Status(h) = "killed"
          /\ timelines[h].completes = 0
          /\ timelines[h].time + 1 >= TimelineDuration(timelines[h].children)

\* C27: a killAll or kill called by the onStart callback of a flyToTarget call
\* invokes kill() only on timelines that were in the hook's array before the
\* call; the call still creates its timeline, pushes it and returns it, and
\* when it returns that timeline is running and is the last of the array,
\* after the earlier timelines that the callback did not remove.
C27_OnStartCancelSparesNewTimeline ==
    [][(/\ lastCall'.op = "flyToTarget"
        /\ lastCall'.onStart \in {"fnKillAll", "fnKill"}
        /\ ~lastCall'.threw)
       => LET i == lastCall'.inst
              h == lastCall'.ret
              before == activeAnimationsRef[i]
              kept == SelectSeq(before, LAMBDA g : g \notin Killed(lastCall'.trace))
          IN  /\ h # NullTl
              /\ h \notin Handles
              /\ Killed(lastCall'.trace) \subseteq Range(before)
              /\ lastCall'.onStart = "fnKillAll" => Killed(lastCall'.trace) = Range(before)
              /\ timelines'[h].status = "running"
              /\ timelines'[h].time = 0
              /\ activeAnimationsRef'[i] = Append(kept, h)
              /\ \A g \in Handles \ Killed(lastCall'.trace) :
                    timelines'[g] = timelines[g]]_vars

\* C27 witness: a call whose onStart callback called kill on the running
\* timeline of the previous flight, and whose own timeline is running and
\* alone in the array
C27_Witness ==
    /\ lastCall.op = "flyToTarget"
    /\ lastCall.onStart = "fnKill"
    /\ lastCall.ret # NullTl
    /\ \E g \in Killed(lastCall.trace) : Status(g) = "killed" /\ timelines[g].time > 0
    /\ Status(lastCall.ret) = "running"
    /\ activeAnimationsRef[lastCall.inst] = <<lastCall.ret>>

\* C28: with the default anchor (targetPosition "center", zero
\* targetPositionOffset) the motion end point is the one the center-to-center
\* variant computes from the same rectangles and current position, and with
\* a swoop the control point is the one computed from that end point.
C28_DefaultAnchor(h) ==
    /\ timelines[h].config.targetPosition = "center"
    /\ timelines[h].config.targetPositionOffset = [x |-> 0, y |-> 0]

C29_ScaleDownAfterScaleUp ==
    \A h \in Handles :
        LET config == timelines[h].config
            children == timelines[h].children
        IN  (/\ config.scale
             /\ config.scaleStartDelay >= 0
             /\ config.scaleUpDuration >= 0
             /\ config.scalePause >= 0)
            => /\ Len(children) = 3
               /\ children[2].prop = "scaleUp" /\ children[3].prop = "scaleDown"
               /\ children[2].start >= 0
               /\ children[3].start >= EndTime(children[2])

\* C29 witness: a flight whose scale-up has no delay and no length and whose
\* scale-down starts after the pause, and a flight with the default scale
\* timing
C29_Witness ==
    \E g, h \in Handles :
        /\ timelines[g].config.scale
        /\ timelines[g].config.scaleUpDuration = 0
        /\ EndTime(timelines[g].children[2]) = 0
        /\ timelines[g].children[3].start = timelines[g].config.scalePause
        /\ timelines[g].children[3].start > 0
        /\ timelines[h].config.scale
        /\ timelines[h].config.scaleUpDuration = DEFAULT_CONFIG.scaleUpDuration
        /\ timelines[h].children[3].start > EndTime(timelines[h].children[2])

\* C30: for distinct start and end and a swoopAmount other than 0 the
\* control point is equally far from start and end, and the control point
\* computed from end to start with the negated swoopAmount is the same.
C30_Dist2(p, q) == (p.x - q.x) * (p.x - q.x) + (p.y - q.y) * (p.y - q.y)

C30_ControlPointOnBisector ==
    \A h \in Handles :
        LET start == C13_Start(h)
            end == C13_End(h)
            swoop == timelines[h].config.swoopAmount
        IN  (start # end /\ swoop # 0)
            => LET control == timelines[h].children[1].vars.motionPath.path[2]
               IN  /\ control = ControlPoint(start, end, swoop)
                   /\ ControlPoint(end, start, -swoop) = control
                   /\ control.exact => C30_Dist2(control, start) = C30_Dist2(control, end)

\* C30 witness: flights with a whole-numbered control point off the segment,
\* one with a negative and one with a positive swoopAmount, each equally far
\* from its start and its end
C30_Witness ==
    \E g, h \in Handles :
        /\ timelines[g].config.swoopAmount < 0
        /\ timelines[h].config.swoopAmount > 0
        /\ \A k \in {g, h} :
              LET control == timelines[k].children[1].vars.motionPath.path[2]
              IN  /\ C13_Start(k) # C13_End(k)
                  /\ control.exact
                  /\ C30_Dist2(control, C13_Start(k)) = C30_Dist2(control, C13_End(k))
                  /\ C30_Dist2(control, C13_Start(k)) * 4
                     > C30_Dist2(C13_Start(k), C13_End(k))

====
